---- MODULE Spec2Model ----
(***************************************************************************)
(* Task Assignment & Settlement Engine of the Viberate platform.           *)
(*                                                                         *)
(* The Django backend that implements the engine is not part of the        *)
(* source tree; the tree holds its clients (VS Code extension, React       *)
(* dashboard) and its documentation.  The engine's operations are          *)
(* therefore modelled from spec.md sections 3-5, and the parts the         *)
(* clients and the documents fix (the cancellable statuses, the payment    *)
(* limits, the status vocabulary) are taken from the source.               *)
(*                                                                         *)
(* Amounts are fixed-point integers in cents (spec.md 4.3).                *)
(***************************************************************************)
EXTENDS Integers, Sequences, FiniteSets, TLC

\* ---------------------------------------------------------------- bounds
NumTasks == 1
MaxAssignments == 2
MaxTx == 2
MaxRetry == 1
MaxRequests == 3
MaxDecimals == 8
MaxRenders == 3
MaxHostClaims == 2
MaxPending == 2
MaxCallbacks == 3
MaxThreshold == 2
MaxIdle == 3
MaxIntervals == 2

\* ------------------------------------------------------ program constants
\* $10,000.00 in cents
MaxAmount == 1000000

\* the $5.00 of the documented approve request, in cents
FiveDollars == 500

\* hexadecimal characters of a wallet address, and its length with the 0x
HexLen == 40
AddressLen == 42

\* ------------------------------------------------------------ vocabulary
Tasks == 1..NumTasks

Annotators == {"annA", "annB"}

Researchers == {"resR"}

Callers == Annotators \cup Researchers

\* every imported task belongs to the one project of researcher resR
ProjectOwner(t) == "resR"

TaskStatuses == {"available", "claimed"}

AssignmentStatuses ==
  {"assigned", "accepted", "in_progress", "submitted",
   "approved", "rejected", "cancelled"}

Terminal == {"approved", "rejected", "cancelled"}

NonTerminal == AssignmentStatuses \ Terminal

TxStatuses == {"pending", "processing", "completed", "failed", "refunded"}

\* result payloads as character sequences; " " is whitespace
Payloads == { <<>>, <<" ", " ">>, <<" ", "o">> }

\* payment amounts offered to approve, in cents
Amounts == {0, 500, MaxAmount + 1}

TransferResults == {"success", "failure", "timeout"}

VARIABLES
  taskStatus,   \* Task Store: task id -> available | claimed
  asg,          \* Assignment records, indexed by assignment id
  txs,          \* SettlementTransaction records, indexed by transaction id
  paid,         \* transfer service ledger: idempotency keys that were paid
  claimReq,     \* claim calls in flight: annotator -> task id, 0 for none
  last,         \* the operation completed by the latest step and its result
  input,        \* validators: the value handed to a validator
  verdict,      \* validators: who validated it and the message returned
  request,      \* dashboard: the approve request posted to the API, if any
  handler,      \* approval endpoint: the request being handled and its position
  rows,         \* approval endpoint: the assignment rows it reads and saves
  chain,        \* approval endpoint: the USDC transfers executed
  auditLog,     \* approval endpoint: the audit_logs table
  webview,      \* task panel webview: rendered view, listeners, claim guard
  click,        \* task panel webview: the last click and what it posted
  host,         \* extension host: claim messages in handling, updates sent
  dashboard,    \* dashboard: pending list, selection, loading, single approval
  batch,        \* dashboard: the handleBatchApprove call in progress
  sent,         \* dashboard: the approve requests sent to the API
  backend,      \* API as the dashboard sees it: prices, submitted assignments
  storage,      \* extension: globalState keys authToken and user
  login,        \* extension: the AuthManager.login call in progress
  logout,       \* extension: the AuthManager.logout call in progress
  dataReq,      \* extension: the sendDataToWebview call in progress
  update,       \* extension: the last update message posted to the webview
  web,          \* dashboard: isAuthenticated, user, localStorage authToken
  sessionState, \* GitHub OAuth: sessionStorage github_oauth_state
  callback,     \* GitHub OAuth: the last callback handled and its outcome
  inflight,     \* GitHub OAuth: authenticateWithCode calls awaiting the backend
  localAuth,    \* GitHub OAuth: localStorage auth_token
  detector,     \* IdleDetector: its fields, times in seconds
  timers,       \* IdleDetector: the intervals setInterval has running
  quiet,        \* IdleDetector: seconds since the user's last activity
  invoked       \* IdleDetector: the last call, the callbacks it invoked, and
                \* those invoked since the user's last activity

engineVars == <<taskStatus, asg, txs, paid, claimReq, last>>

validationVars == <<input, verdict, request>>

endpointVars == <<handler, rows, chain, auditLog>>

webviewVars == <<webview, click, host>>

\* the client components besides the validators
dashboardVars == <<dashboard, batch, sent, backend>>

authVars == <<storage, login, logout, dataReq, update, web>>

oauthVars == <<sessionState, callback, inflight, localAuth>>

idleVars == <<detector, timers, quiet, invoked>>

clientVars == <<webviewVars, dashboardVars, authVars, oauthVars, idleVars>>

vars == <<engineVars, validationVars, endpointVars, clientVars>>

\* what each component leaves alone
outsideEngine == <<validationVars, endpointVars, clientVars>>

outsideValidation == <<engineVars, endpointVars, clientVars>>

outsideEndpoint == <<engineVars, validationVars, clientVars>>

outsideWebview == <<engineVars, validationVars, endpointVars, dashboardVars, authVars, oauthVars, idleVars>>

outsideDashboard == <<engineVars, validationVars, endpointVars, webviewVars, authVars, oauthVars, idleVars>>

outsideAuth == <<engineVars, validationVars, endpointVars, webviewVars, dashboardVars, oauthVars, idleVars>>

outsideOAuth == <<engineVars, validationVars, endpointVars, webviewVars, dashboardVars, authVars, idleVars>>

outsideIdle == <<engineVars, validationVars, endpointVars, webviewVars, dashboardVars, authVars, oauthVars>>

AsgIds == 1..Len(asg)

TxIds == 1..Len(txs)

NoOp == [op |-> "none", id |-> 0, caller |-> "none", outcome |-> "none"]

Done(o, i, c, r) == [op |-> o, id |-> i, caller |-> c, outcome |-> r]

\* no validator has been called
ValidationIdle ==
  /\ input = [kind |-> "none"]
  /\ verdict = [by |-> "none", error |-> "null"]
  /\ request = [posted |-> FALSE]

\* the approval endpoint has received nothing
EndpointIdle ==
  /\ handler = [pc |-> "idle"]
  /\ rows = <<>>
  /\ chain = {}
  /\ auditLog = <<>>

\* the task panel has not been opened
WebviewIdle ==
  /\ webview = [view |-> "closed"]
  /\ click = [action |-> "none"]
  /\ host = [claims |-> 0, updates |-> 0]

\* the dashboard shows no pending assignment
DashboardIdle ==
  /\ dashboard = [approving |-> 0]
  /\ batch = [pc |-> "idle"]
  /\ sent = {}
  /\ backend = [submitted |-> {}]

\* nobody is logged in and no call is in progress
AuthIdle ==
  /\ storage = [authToken |-> "none", user |-> "none"]
  /\ login = [pc |-> "idle", response |-> "none", result |-> "none"]
  /\ logout = [pc |-> "idle", had |-> "none", overlapped |-> FALSE, ok |-> FALSE,
               done |-> FALSE]
  /\ dataReq = [pc |-> "idle"]
  /\ update = [type |-> "none"]
  /\ web = [pc |-> "idle", isAuthenticated |-> FALSE, user |-> "none",
            authToken |-> "none", had |-> "none", ok |-> FALSE, done |-> FALSE]

\* no GitHub login has been started
OAuthIdle ==
  /\ sessionState = "none"
  /\ callback = [n |-> 0, outcome |-> "none"]
  /\ inflight = {}
  /\ localAuth = "none"

\* no IdleDetector has been constructed
DetectorIdle ==
  /\ detector = [checkInterval |-> 0]
  /\ timers = {}
  /\ quiet = 0
  /\ invoked = [call |-> "none"]

ClientIdle == WebviewIdle /\ DashboardIdle /\ AuthIdle /\ OAuthIdle /\ DetectorIdle

EngineInit ==
  /\ taskStatus = [t \in Tasks |-> "available"]
  /\ asg = <<>>
  /\ txs = <<>>
  /\ paid = {}
  /\ claimReq = [c \in Annotators |-> 0]
  /\ last = NoOp

Init == EngineInit /\ ValidationIdle /\ EndpointIdle /\ ClientIdle

\* ------------------------------------------------------------ Task Store
\* mutant: markClaimed without the availability test
CanClaim_NoCheck(t) == TRUE

\* markClaimed: the compare of the compare-and-set
CanClaim(t) == taskStatus[t] = "available"

\* mutant: cancel forgets to release the task
TaskAfterCancel_NoRelease == "claimed"

\* status of a task once its assignment has been cancelled (release)
TaskAfterCancel == "available"

\* ------------------------------------------------------------ claim
NewAssignment(t, c) ==
  [task |-> t, annotator |-> c, status |-> "assigned", result |-> <<>>]

\* an annotator sends a claim call for a task listed as available; the call
\* is in flight until the engine handles it
ClaimRequest(c, t) ==
  /\ claimReq[c] = 0
  /\ taskStatus[t] = "available"
  /\ Len(asg) + Cardinality({d \in Annotators : claimReq[d] # 0}) < MaxAssignments
  /\ claimReq' = [claimReq EXCEPT ![c] = t]
  /\ last' = Done("claim_request", t, c, "pending")
  /\ UNCHANGED <<taskStatus, asg, txs, paid>>
  /\ UNCHANGED outsideEngine

\* the Assignment records after a claim call that won markClaimed
AsgAfterClaim(t, c) == Append(asg, NewAssignment(t, c))

\* mutant: the Assignment written before markClaimed is not rolled back
AsgAfterFailedClaim_NoRollback(t, c) == Append(asg, NewAssignment(t, c))

\* the Assignment records after a claim call that lost markClaimed (rollback)
AsgAfterFailedClaim(t, c) == asg

\* the engine handles one claim call: markClaimed and the creation of the
\* Assignment are one atomic operation
Claim(c) ==
  /\ claimReq[c] # 0
  /\ IF CanClaim(claimReq[c])
       THEN /\ taskStatus' = [taskStatus EXCEPT ![claimReq[c]] = "claimed"]
            /\ asg' = AsgAfterClaim(claimReq[c], c)
            /\ last' = Done("claim", Len(asg) + 1, c, "ok")
       ELSE /\ asg' = AsgAfterFailedClaim(claimReq[c], c)
            /\ last' = Done("claim", 0, c, "AlreadyClaimed")
            /\ UNCHANGED taskStatus
  /\ claimReq' = [claimReq EXCEPT ![c] = 0]
  /\ UNCHANGED <<txs, paid>>
  /\ UNCHANGED outsideEngine

\* ------------------------------------------------ assignment transitions
\* an approve call holds its Assignment row while the settlement runs
Locked(a) ==
  \E k \in TxIds : txs[k].assignment = a /\ txs[k].call = "settle"

IsAnnotator(c, a) == c = asg[a].annotator

\* mutant: no owner check
IsOwner_Anyone(c, a) == TRUE

IsOwner(c, a) == c = ProjectOwner(asg[a].task)

AcceptFrom == {"assigned"}

StartFrom == {"assigned", "accepted"}

SubmitFrom == {"assigned", "accepted", "in_progress"}

\* mutant: cancel takes every non-terminal assignment
CancelFrom_NonTerminal == {"assigned", "accepted", "in_progress", "submitted"}

CancelFrom == {"assigned", "accepted", "in_progress"}

\* mutant: approve does not look at the assignment's status
ApproveFrom_Any == AssignmentStatuses

\* mutant: a rejected assignment may still be approved
ApproveFrom_AlsoRejected == {"submitted", "rejected"}

ApproveFrom == {"submitted"}

RejectFrom == {"submitted"}

\* the source states an operation allows
AllowedFrom(o) ==
  CASE o = "accept"  -> AcceptFrom
    [] o = "start"   -> StartFrom
    [] o = "submit"  -> SubmitFrom
    [] o = "cancel"  -> CancelFrom
    [] o = "approve" -> ApproveFrom
    [] o = "reject"  -> RejectFrom

\* whether caller c has authority for operation o on assignment a
Authorised(o, c, a) ==
  CASE o \in {"accept", "start", "submit"} -> IsAnnotator(c, a)
    [] o \in {"approve", "reject"}         -> IsOwner(c, a)
    [] o = "cancel"                        -> TRUE

\* the error a transition call fails with, "ok" when it may proceed
Precheck(o, c, a) ==
  IF ~Authorised(o, c, a) THEN "Forbidden"
  ELSE IF asg[a].status \notin AllowedFrom(o) THEN "InvalidState"
  ELSE "ok"

SetStatus(a, s) == [asg EXCEPT ![a].status = s]

\* a transition that only changes the assignment's status
Transition(o, a, c, to) ==
  /\ last' = Done(o, a, c, Precheck(o, c, a))
  /\ asg' = IF Precheck(o, c, a) = "ok" THEN SetStatus(a, to) ELSE asg
  /\ UNCHANGED <<taskStatus, txs, paid, claimReq>>
  /\ UNCHANGED outsideEngine

Accept(a, c) == Transition("accept", a, c, "accepted")

Start(a, c) == Transition("start", a, c, "in_progress")

RECURSIVE TrimLeft(_)
TrimLeft(r) ==
  IF r # <<>> /\ Head(r) = " " THEN TrimLeft(Tail(r)) ELSE r

RECURSIVE TrimRight(_)
TrimRight(r) ==
  IF r # <<>> /\ r[Len(r)] = " " THEN TrimRight(SubSeq(r, 1, Len(r) - 1)) ELSE r

Trim(r) == TrimRight(TrimLeft(r))

\* mutant: only the empty payload is refused
IsBlank_EmptyOnly(r) == r = <<>>

\* empty or whitespace-only result payload
IsBlank(r) == Trim(r) = <<>>

SubmitCheck(c, a, r) ==
  IF Precheck("submit", c, a) # "ok" THEN Precheck("submit", c, a)
  ELSE IF IsBlank(r) THEN "ValidationError"
  ELSE "ok"

Submit(a, c, r) ==
  /\ last' = Done("submit", a, c, SubmitCheck(c, a, r))
  /\ asg' = IF SubmitCheck(c, a, r) = "ok"
              THEN [asg EXCEPT ![a].status = "submitted", ![a].result = r]
              ELSE asg
  /\ UNCHANGED <<taskStatus, txs, paid, claimReq>>
  /\ UNCHANGED outsideEngine

Cancel(a, c) ==
  /\ last' = Done("cancel", a, c, Precheck("cancel", c, a))
  /\ IF Precheck("cancel", c, a) = "ok"
       THEN /\ asg' = SetStatus(a, "cancelled")
            /\ taskStatus' = [taskStatus EXCEPT ![asg[a].task] = TaskAfterCancel]
       ELSE UNCHANGED <<asg, taskStatus>>
  /\ UNCHANGED <<txs, paid, claimReq>>
  /\ UNCHANGED outsideEngine

Reject(a, c) ==
  /\ Precheck("reject", c, a) = "ok" => ~Locked(a)
  /\ Transition("reject", a, c, "rejected")

\* ------------------------------------------------------ Settlement Processor
\* amount is positive and within the configured maximum
ValidAmount(amt) == amt > 0 /\ amt <= MaxAmount

\* mutant: the record is written only once the transfer is under way
NewTx_Processing(a, amt) ==
  [assignment |-> a, amount |-> amt, status |-> "processing", hash |-> 0,
   retry_count |-> 0, error |-> FALSE, call |-> "settle"]

NewTx(a, amt) ==
  [assignment |-> a, amount |-> amt, status |-> "pending", hash |-> 0,
   retry_count |-> 0, error |-> FALSE, call |-> "settle"]

ApproveCheck(c, a, amt, addrOK) ==
  IF Precheck("approve", c, a) # "ok" THEN Precheck("approve", c, a)
  ELSE IF ~ValidAmount(amt) THEN "ValidationError"
  ELSE IF ~addrOK THEN "ValidationError"
  ELSE "ok"

\* approve, up to the point where settle has written the pending record and
\* issued the blocking transfer call; addrOK: the annotator's wallet address
\* passes validation
Approve(a, c, amt, addrOK) ==
  /\ ApproveCheck(c, a, amt, addrOK) = "ok" => ~Locked(a) /\ Len(txs) < MaxTx
  /\ IF ApproveCheck(c, a, amt, addrOK) = "ok"
       THEN /\ txs' = Append(txs, NewTx(a, amt))
            /\ last' = Done("approve", a, c, "settling")
       ELSE /\ last' = Done("approve", a, c, ApproveCheck(c, a, amt, addrOK))
            /\ UNCHANGED txs
  /\ UNCHANGED <<taskStatus, asg, paid, claimReq>>
  /\ UNCHANGED outsideEngine

\* mutant: the assignment is never marked approved
StatusAfterSettle_Never(res) == "submitted"

\* mutant: the assignment is approved whatever the settlement returned
StatusAfterSettle_Always(res) == "approved"

\* status of a submitted assignment once its settlement call has returned
StatusAfterSettle(res) == IF res = "success" THEN "approved" ELSE "submitted"

\* the operation a transfer call belongs to
OpOf(k) == IF txs[k].call = "settle" THEN "approve" ELSE "retry"

RefOf(k) == IF txs[k].call = "settle" THEN txs[k].assignment ELSE k

AsgAfterTransfer(k, res) ==
  IF txs[k].call = "settle"
    THEN SetStatus(txs[k].assignment, StatusAfterSettle(res))
    ELSE asg

\* mutant: a failed transfer is sent again at once
TxAfterTransfer_AutoRetry(k, res) ==
  CASE res = "success" ->
         [txs EXCEPT ![k].status = "completed", ![k].hash = k, ![k].call = "none"]
    [] res = "failure" ->
         [txs EXCEPT ![k].status = "processing", ![k].error = TRUE,
                     ![k].retry_count = @ + 1, ![k].call = "retry"]
    [] res = "timeout" ->
         [txs EXCEPT ![k].call = "none"]

\* mutant: a timeout is taken for a failure
TxAfterTransfer_TimeoutFails(k, res) ==
  CASE res = "success" ->
         [txs EXCEPT ![k].status = "completed", ![k].hash = k, ![k].call = "none"]
    [] res \in {"failure", "timeout"} ->
         [txs EXCEPT ![k].status = "failed", ![k].error = TRUE,
                     ![k].retry_count = @ + 1, ![k].call = "none"]

\* mutant: the hash field is written whatever the transfer returned
TxAfterTransfer_HashAlways(k, res) ==
  CASE res = "success" ->
         [txs EXCEPT ![k].status = "completed", ![k].hash = k, ![k].call = "none"]
    [] res = "failure" ->
         [txs EXCEPT ![k].status = "failed", ![k].error = TRUE, ![k].hash = k,
                     ![k].retry_count = @ + 1, ![k].call = "none"]
    [] res = "timeout" ->
         [txs EXCEPT ![k].call = "none"]

\* the transaction record after the transfer call returned res
TxAfterTransfer(k, res) ==
  CASE res = "success" ->
         [txs EXCEPT ![k].status = "completed", ![k].hash = k, ![k].call = "none"]
    [] res = "failure" ->
         [txs EXCEPT ![k].status = "failed", ![k].error = TRUE,
                     ![k].retry_count = @ + 1, ![k].call = "none"]
    [] res = "timeout" ->
         [txs EXCEPT ![k].call = "none"]

\* what the transfer service may have done with idempotency key k
LedgerAfterTransfer(k, res) ==
  CASE res = "success" -> {paid \cup {k}}
    [] res = "failure" -> {paid}
    [] res = "timeout" -> {paid, paid \cup {k}}

\* the blocking transfer call of settle or retry returns
TransferReturn(k, res) ==
  /\ txs[k].call # "none"
  /\ res = "failure" => k \notin paid
  /\ txs' = TxAfterTransfer(k, res)
  /\ asg' = AsgAfterTransfer(k, res)
  /\ paid' \in LedgerAfterTransfer(k, res)
  /\ last' = Done(OpOf(k), RefOf(k), "none",
                  CASE res = "success" -> "ok"
                    [] res = "failure" -> "SettlementFailure"
                    [] res = "timeout" -> "Timeout")
  /\ UNCHANGED <<taskStatus, claimReq>>
  /\ UNCHANGED outsideEngine

\* mutant: retry also takes a transaction that is still pending
RetryFrom_AlsoPending == {"failed", "pending"}

RetryFrom == {"failed"}

\* explicit retry of a transaction, up to the point where the transfer call
\* is issued again under the same idempotency key
Retry(k) ==
  /\ txs[k].status \in RetryFrom => txs[k].retry_count <= MaxRetry
  /\ IF txs[k].status \in RetryFrom
       THEN /\ txs' = [txs EXCEPT ![k].status = "processing", ![k].call = "retry"]
            /\ last' = Done("retry", k, "none", "processing")
       ELSE /\ last' = Done("retry", k, "none", "InvalidState")
            /\ UNCHANGED txs
  /\ UNCHANGED <<taskStatus, asg, paid, claimReq>>
  /\ UNCHANGED outsideEngine

\* reconciliation of a transaction whose transfer call timed out
Reconcile(k) ==
  /\ txs[k].status \in {"pending", "processing"}
  /\ txs[k].call = "none"
  /\ txs' = IF k \in paid
              THEN [txs EXCEPT ![k].status = "completed", ![k].hash = k]
              ELSE [txs EXCEPT ![k].status = "failed", ![k].error = TRUE]
  /\ last' = Done("reconcile", k, "none", IF k \in paid THEN "completed" ELSE "failed")
  /\ UNCHANGED <<taskStatus, asg, paid, claimReq>>
  /\ UNCHANGED outsideEngine

\* ------------------------------------------------------------ behaviours
Next ==
  \/ \E c \in Annotators, t \in Tasks : ClaimRequest(c, t)
  \/ \E c \in Annotators : Claim(c)
  \/ \E a \in AsgIds, c \in Callers : Accept(a, c)
  \/ \E a \in AsgIds, c \in Callers : Start(a, c)
  \/ \E a \in AsgIds, c \in Callers, r \in Payloads : Submit(a, c, r)
  \/ \E a \in AsgIds, c \in Callers : Cancel(a, c)
  \/ \E a \in AsgIds, c \in Callers, amt \in Amounts, addrOK \in BOOLEAN :
       Approve(a, c, amt, addrOK)
  \/ \E a \in AsgIds, c \in Callers : Reject(a, c)
  \/ \E k \in TxIds, res \in TransferResults : TransferReturn(k, res)
  \/ \E k \in TxIds : Retry(k)
  \/ \E k \in TxIds : Reconcile(k)

Spec == Init /\ [][Next]_vars

\* ------------------------------------------------------------ validators
\* a JavaScript number that has a short decimal form: NaN, or
\* (-1)^neg * m * 10^(-e) with m not ending in 0 unless e = 0
Mantissas == {0, 1, 5, 15, 125, 10000, 10001, 1000001}

PaymentInputs ==
  {[kind |-> "number", nan |-> TRUE, neg |-> FALSE, m |-> 0, e |-> 0]}
    \cup {x \in [kind : {"number"}, nan : {FALSE}, neg : BOOLEAN,
                 m : Mantissas, e : 0..MaxDecimals] :
            x.e > 0 => x.m % 10 # 0}

DigitChar == <<"0", "1", "2", "3", "4", "5", "6", "7", "8", "9">>

\* the decimal digits of a natural number
RECURSIVE Digits(_)
Digits(m) ==
  IF m < 10 THEN <<DigitChar[m + 1]>>
  ELSE Append(Digits(m \div 10), DigitChar[(m % 10) + 1])

RECURSIVE Zeros(_)
Zeros(n) == IF n <= 0 THEN <<>> ELSE <<"0">> \o Zeros(n - 1)

\* Number.prototype.toString of the positive number m * 10^(-e): with k
\* digits and the decimal point after digit n, fixed notation while
\* -6 < n <= 21, exponent notation otherwise
NumberToString(m, e) ==
  LET d == Digits(m)
      k == Len(d)
      n == k - e
  IN  IF e = 0 THEN d
      ELSE IF n > 0 THEN SubSeq(d, 1, n) \o <<".">> \o SubSeq(d, n + 1, k)
      ELSE IF n > -6 THEN <<"0", ".">> \o Zeros(-n) \o d
      ELSE IF k = 1 THEN d \o <<"e", "-">> \o Digits(1 - n)
      ELSE <<d[1], ".">> \o SubSeq(d, 2, k) \o <<"e", "-">> \o Digits(1 - n)

\* str.split('.')[1]?.length || 0
RECURSIVE AfterFirstDot(_)
AfterFirstDot(str) ==
  IF str = <<>> THEN <<>>
  ELSE IF Head(str) = "." THEN Tail(str)
  ELSE AfterFirstDot(Tail(str))

RECURSIVE UpToDot(_)
UpToDot(str) ==
  IF str = <<>> \/ Head(str) = "." THEN <<>>
  ELSE <<Head(str)>> \o UpToDot(Tail(str))

DecimalsShown(m, e) == Len(UpToDot(AfterFirstDot(NumberToString(m, e))))

\* m * 10^(-e) > limit
Exceeds(m, e, limit) ==
  \/ m \div (10 ^ e) > limit
  \/ (m \div (10 ^ e) = limit /\ m % (10 ^ e) > 0)

\* the message validatePaymentAmount returns, "null" for none
validatePaymentAmount(x) ==
  IF x.nan THEN "Payment amount must be a valid number"
  ELSE IF x.neg /\ x.m > 0 THEN "Payment amount cannot be negative"
  ELSE IF x.m = 0 THEN "Payment amount must be greater than zero"
  ELSE IF Exceeds(x.m, x.e, MaxAmount \div 100)
    THEN "Payment amount cannot exceed $10,000 USDC"
  ELSE IF DecimalsShown(x.m, x.e) > 2
    THEN "Payment amount can have at most 2 decimal places"
  ELSE "null"

\* the dashboard's handleApproveAssignment: validate, and post the approve
\* request only when the validator returned no message
HandleApproveAssignment ==
  /\ input.kind = "number"
  /\ verdict.by = "none"
  /\ verdict' = [by |-> "handleApproveAssignment", error |-> validatePaymentAmount(input)]
  /\ request' = IF validatePaymentAmount(input) = "null"
                  THEN [posted |-> TRUE, payment_amount |-> input]
                  ELSE [posted |-> FALSE]
  /\ UNCHANGED input
  /\ UNCHANGED outsideValidation

\* ApproveAssignmentSerializer: DecimalField(decimal_places=2, min_value=0.01,
\* max_value=10000.00) and validate_payment_amount
SerializerError(x) ==
  IF x.nan THEN "A valid number is required."
  ELSE IF x.e > 2 THEN "Ensure that there are no more than 2 decimal places."
  ELSE IF x.neg \/ x.m * (10 ^ (2 - x.e)) < 1
    THEN "Ensure this value is greater than or equal to 0.01."
  ELSE IF x.m * (10 ^ (2 - x.e)) > MaxAmount
    THEN "Ensure this value is less than or equal to 10000.00."
  ELSE "null"

SerializerValidate ==
  /\ input.kind = "number"
  /\ verdict.by = "none"
  /\ verdict' = [by |-> "ApproveAssignmentSerializer", error |-> SerializerError(input)]
  /\ UNCHANGED <<input, request>>
  /\ UNCHANGED outsideValidation

\* wallet addresses: a prefix and a two-character unit repeated; hashHigh
\* tells, for the odd and for the even positions, whether the Keccak-256
\* digest of the lower-case address has a nibble of 8 or more there
AddressUnits == {<<c1, c2>> : c1, c2 \in {"a", "A", "1", "g"}}

AddressPrefixes == {<<"0", "x">>, <<"0", "X">>, <<>>}

RECURSIVE Repeat(_, _)
Repeat(u, n) == IF n <= 0 THEN <<>> ELSE u \o Repeat(u, n - 1)

WalletInputs ==
  {[kind |-> "address", address |-> pre \o Repeat(u, r), hashHigh |-> h] :
     pre \in AddressPrefixes, u \in AddressUnits,
     r \in {0, HexLen \div 2 - 1, HexLen \div 2, HexLen \div 2 + 1},
     h \in [1..2 -> BOOLEAN]}

LowerHex == {"a", "b", "c", "d", "e", "f"}

UpperHex == {"A", "B", "C", "D", "E", "F"}

HexChars == {DigitChar[i] : i \in 1..10} \cup LowerHex \cup UpperHex

\* address.startsWith('0x')
StartsWith0x(addr) == Len(addr) >= 2 /\ addr[1] = "0" /\ addr[2] = "x"

\* /^0x[a-fA-F0-9]{40}$/.test(address)
MatchesHex40(addr) ==
  /\ Len(addr) = HexLen + 2
  /\ StartsWith0x(addr)
  /\ \A i \in 3..Len(addr) : addr[i] \in HexChars

\* /[A-F]/.test(address.substring(2))
HasUpperCase(addr) == \E i \in 3..Len(addr) : addr[i] \in UpperHex

\* /[a-f]/.test(address.substring(2))
HasLowerCase(addr) == \E i \in 3..Len(addr) : addr[i] \in LowerHex

\* the extension's validateWalletAddress; its mixed-case branch is empty
validateWalletAddressExtension(addr) ==
  IF addr = <<>> THEN "Wallet address is required"
  ELSE IF ~StartsWith0x(addr) THEN "Wallet address must start with 0x"
  ELSE IF Len(addr) # AddressLen THEN "Wallet address must be 42 characters"
  ELSE IF ~MatchesHex40(addr) THEN "Wallet address contains invalid characters"
  ELSE IF HasUpperCase(addr) /\ HasLowerCase(addr) THEN "null"
  ELSE "null"

\* the web dashboard's validateWalletAddress
validateWalletAddressWeb(addr) ==
  IF addr = <<>> THEN "Wallet address is required"
  ELSE IF ~MatchesHex40(addr) THEN "Invalid wallet address format"
  ELSE "null"

ValidateWalletExtension ==
  /\ input.kind = "address"
  /\ verdict.by = "none"
  /\ verdict' = [by |-> "extension", error |-> validateWalletAddressExtension(input.address)]
  /\ UNCHANGED <<input, request>>
  /\ UNCHANGED outsideValidation

ValidateWalletWeb ==
  /\ input.kind = "address"
  /\ verdict.by = "none"
  /\ verdict' = [by |-> "web", error |-> validateWalletAddressWeb(input.address)]
  /\ UNCHANGED <<input, request>>
  /\ UNCHANGED outsideValidation

InitValidation ==
  /\ EngineInit
  /\ EndpointIdle
  /\ ClientIdle
  /\ input \in PaymentInputs \cup WalletInputs
  /\ verdict = [by |-> "none", error |-> "null"]
  /\ request = [posted |-> FALSE]

NextValidation ==
  \/ HandleApproveAssignment
  \/ SerializerValidate
  \/ ValidateWalletExtension
  \/ ValidateWalletWeb

SpecValidation == InitValidation /\ [][NextValidation]_vars

\* the documented workflow: annotators claim, the annotator accepts, starts
\* and submits a non-empty result, the owner approves with $5.00 and every
\* transfer succeeds
NextScenario ==
  \/ \E c \in Annotators, t \in Tasks : ClaimRequest(c, t)
  \/ \E c \in Annotators : Claim(c)
  \/ \E a \in AsgIds : Accept(a, asg[a].annotator)
  \/ \E a \in AsgIds : Start(a, asg[a].annotator)
  \/ \E a \in AsgIds, r \in {p \in Payloads : ~IsBlank(p)} : Submit(a, asg[a].annotator, r)
  \/ \E a \in AsgIds : Approve(a, ProjectOwner(asg[a].task), FiveDollars, TRUE)
  \/ \E k \in TxIds : TransferReturn(k, "success")

SpecScenario == Init /\ [][NextScenario]_vars

\* ------------------------------------------------------ approval endpoint
\* approve_assignment as BACKEND_REQUIREMENTS.md gives it, one statement per
\* step; requests are served one after the other
EndpointAssignments == {1, 2}

InitEndpoint ==
  /\ EngineInit
  /\ ValidationIdle
  /\ ClientIdle
  /\ handler = [pc |-> "idle", a |-> 0, amt |-> 0, hash |-> 0, n |-> 0, outcome |-> "none"]
  /\ rows = [a \in EndpointAssignments |->
               [status |-> "submitted", payment_amount |-> 0, transaction_hash |-> 0]]
  /\ chain = {}
  /\ auditLog = <<>>

\* the audit_logs table after AuditLog.objects.create
log_audit_event(event, a, amt, hash) ==
  Append(auditLog, [event_type |-> event, assignment |-> a, amount |-> amt,
                    transaction_hash |-> hash, request |-> handler.n])

\* a POST /api/assignments/{id}/approve/ arrives
ApproveReceive(a, amt) ==
  /\ handler.pc = "idle"
  /\ handler.n < MaxRequests
  /\ handler' = [pc |-> "validate", a |-> a, amt |-> amt, hash |-> 0,
                 n |-> handler.n + 1, outcome |-> "none"]
  /\ UNCHANGED <<rows, chain, auditLog>>
  /\ UNCHANGED outsideEndpoint

\* "# ... validation ...": the assignment is submitted and the amount valid
ApproveValidate ==
  /\ handler.pc = "validate"
  /\ handler' = IF rows[handler.a].status \in ApproveFrom /\ ValidAmount(handler.amt)
                  THEN [handler EXCEPT !.pc = "transfer"]
                  ELSE [handler EXCEPT !.pc = "idle", !.outcome = "rejected"]
  /\ UNCHANGED <<rows, chain, auditLog>>
  /\ UNCHANGED outsideEndpoint

\* tx_hash = transfer_usdc_payment(...): returns the hash or raises
ApproveTransfer(ok) ==
  /\ handler.pc = "transfer"
  /\ IF ok
       THEN /\ chain' = chain \cup {handler.n}
            /\ handler' = [handler EXCEPT !.pc = "update", !.hash = handler.n]
       ELSE /\ handler' = [handler EXCEPT !.pc = "except"]
            /\ UNCHANGED chain
  /\ UNCHANGED <<rows, auditLog>>
  /\ UNCHANGED outsideEndpoint

\* assignment.status = 'approved' ... assignment.save()
ApproveSave ==
  /\ handler.pc = "update"
  /\ rows' = [rows EXCEPT ![handler.a] =
                [status |-> "approved", payment_amount |-> handler.amt,
                 transaction_hash |-> handler.hash]]
  /\ handler' = [handler EXCEPT !.pc = "log_success"]
  /\ UNCHANGED <<chain, auditLog>>
  /\ UNCHANGED outsideEndpoint

\* log_audit_event(event_type='payment_success', ...) and the Response; the
\* write may raise
ApproveLogSuccess(written) ==
  /\ handler.pc = "log_success"
  /\ IF written
       THEN /\ auditLog' = log_audit_event("payment_success", handler.a,
                                           handler.amt, handler.hash)
            /\ handler' = [handler EXCEPT !.pc = "idle", !.outcome = "approved"]
       ELSE /\ handler' = [handler EXCEPT !.pc = "except"]
            /\ UNCHANGED auditLog
  /\ UNCHANGED <<rows, chain>>
  /\ UNCHANGED outsideEndpoint

\* except Exception: log_audit_event(event_type='payment_failure', ...) and
\* raise; this write may raise too
ApproveExcept(written) ==
  /\ handler.pc = "except"
  /\ auditLog' = IF written
                   THEN log_audit_event("payment_failure", handler.a, handler.amt, 0)
                   ELSE auditLog
  /\ handler' = [handler EXCEPT !.pc = "idle", !.outcome = "raised"]
  /\ UNCHANGED <<rows, chain>>
  /\ UNCHANGED outsideEndpoint

NextEndpoint ==
  \/ \E a \in EndpointAssignments, amt \in Amounts : ApproveReceive(a, amt)
  \/ ApproveValidate
  \/ \E ok \in BOOLEAN : ApproveTransfer(ok)
  \/ ApproveSave
  \/ \E written \in BOOLEAN : ApproveLogSuccess(written)
  \/ \E written \in BOOLEAN : ApproveExcept(written)

SpecEndpoint == InitEndpoint /\ [][NextEndpoint]_vars

\* ----------------------------------------------------- task panel webview
\* The script of the task panel (part_003): renderUI runs on every update
\* message, clicks are served by the delegation listeners renderUI attached
\* to the persistent #app element, and the extension host handles each
\* posted message in its own asynchronous call.
ClaimButtons == {"claim-task", "claim-task-from-project"}

PostButtons == {"start-assignment", "cancel-assignment", "submit-generic-annotation"}

InitWebview ==
  /\ EngineInit
  /\ ValidationIdle
  /\ EndpointIdle
  /\ DashboardIdle
  /\ AuthIdle
  /\ OAuthIdle
  /\ DetectorIdle
  /\ webview = [view |-> "loading", listeners |-> 0, isClaimingTask |-> FALSE,
                timers |-> 0, disabled |-> {}]
  /\ click = [action |-> "none"]
  /\ host = [claims |-> 0, updates |-> 1]

\* renderUI: the login screen for an unauthenticated update; otherwise the
\* markup is replaced (fresh, enabled buttons) and one more click listener
\* is added to #app
renderUI(w, isAuthenticated) ==
  IF ~isAuthenticated
    THEN [w EXCEPT !.view = "login", !.disabled = {}]
    ELSE [w EXCEPT !.view = "tasks", !.disabled = {},
                   !.listeners = @ + 1]

\* window 'message' listener: an update sent by the host arrives
ReceiveUpdate(isAuthenticated) ==
  /\ host.updates > 0
  /\ isAuthenticated => webview.listeners < MaxRenders
  /\ webview' = renderUI(webview, isAuthenticated)
  /\ host' = [host EXCEPT !.updates = @ - 1]
  /\ UNCHANGED click
  /\ UNCHANGED outsideWebview

\* mutant: claimTask without the isClaimingTask test
ClaimBlocked_Never(w) == FALSE

\* the guard at the head of claimTask and claimTaskFromProject
ClaimBlocked(w) == w.isClaimingTask

\* claimTask / claimTaskFromProject, run by one listener for a click on
\* button b: r holds the webview and the messages posted so far
claimTask(r, b) ==
  IF ClaimBlocked(r.w) THEN r
  ELSE [w |-> [r.w EXCEPT !.isClaimingTask = TRUE,
                          !.disabled = @ \cup {b},
                          !.timers = @ + 1],
        posts |-> r.posts + 1]

\* the click event reaches each of the n listeners in turn
RECURSIVE Dispatch(_, _, _)
Dispatch(n, r, b) ==
  IF n = 0 THEN r ELSE Dispatch(n - 1, claimTask(r, b), b)

\* the user clicks an enabled claim button
ClickClaim(b) ==
  /\ webview.view = "tasks"
  /\ b \notin webview.disabled
  /\ host.claims < MaxHostClaims
  /\ LET r == Dispatch(webview.listeners, [w |-> webview, posts |-> 0], b)
     IN /\ webview' = r.w
        /\ click' = [action |-> b, posts |-> r.posts, listeners |-> webview.listeners,
                     guarded |-> webview.isClaimingTask, handling |-> host.claims]
        /\ host' = [host EXCEPT !.claims = @ + r.posts]
  /\ UNCHANGED outsideWebview

\* the 3000 ms timer started by a claim fires
ResetClaiming ==
  /\ webview.timers > 0
  /\ webview' = [webview EXCEPT !.isClaimingTask = FALSE, !.timers = @ - 1]
  /\ UNCHANGED <<click, host>>
  /\ UNCHANGED outsideWebview

\* handleClaimTask / handleClaimTaskFromProject return: the claim call, the
\* 500 ms wait and the refresh are over and the update is on its way
HandleClaimDone ==
  /\ host.claims > 0
  /\ host' = [claims |-> host.claims - 1, updates |-> host.updates + 1]
  /\ UNCHANGED <<webview, click>>
  /\ UNCHANGED outsideWebview

\* messages posted by one click on start, cancel or submit: each listener
\* calls startAssignment, cancelAssignment or submitGenericAnnotation, and
\* the last posts nothing for a blank annotation
PostsOfClick(b, text, n) ==
  IF b = "submit-generic-annotation" /\ IsBlank(text) THEN 0 ELSE n

\* the user clicks start, cancel or submit; the host handles each message
\* posted and refreshes the panel
ClickPost(b, text) ==
  /\ webview.view = "tasks"
  /\ host.updates < MaxRenders
  /\ LET k == PostsOfClick(b, text, webview.listeners)
     IN /\ click' = [action |-> b, posts |-> k, listeners |-> webview.listeners,
                     blank |-> (b = "submit-generic-annotation" /\ IsBlank(text))]
        /\ host' = [host EXCEPT !.updates = @ + k]
  /\ UNCHANGED webview
  /\ UNCHANGED outsideWebview

NextWebview ==
  \/ \E isAuthenticated \in BOOLEAN : ReceiveUpdate(isAuthenticated)
  \/ \E b \in ClaimButtons : ClickClaim(b)
  \/ ResetClaiming
  \/ HandleClaimDone
  \/ \E b \in PostButtons, text \in Payloads : ClickPost(b, text)

SpecWebview == InitWebview /\ [][NextWebview]_vars

\* ------------------------------------------------ dashboard batch approval
\* The approvals tab of the React dashboard (App.tsx): the pending list, the
\* selection, the single Approve button and Approve Selected.
PendingIds == 1..MaxPending

\* price_per_task as the API returns it: absent, or a decimal string
PriceStrings ==
  { <<>>,
    <<"5", ".", "0", "0">>,
    <<"0", ".", "0", "0">>,
    <<"0", ".", "0", "0", "5">>,
    <<"1", "2", "0", "0", "0", ".", "0", "0">> }

\* parseFloat of an unsigned decimal string: the longest numeric prefix
\* (digits, then a point and digits), NaN when there is none; the value is
\* m * 10^(-e) without trailing zeros in the fraction
parseFloat(str) ==
  LET IsDigit(c) == \E i \in 1..10 : DigitChar[i] = c
      DigitVal(c) == CHOOSE i \in 0..9 : DigitChar[i + 1] = c
      RECURSIVE LeadDigits(_)
      LeadDigits(t) ==
        IF t = <<>> \/ ~IsDigit(Head(t)) THEN <<>>
        ELSE <<Head(t)>> \o LeadDigits(Tail(t))
      RECURSIVE ValueOf(_)
      ValueOf(d) ==
        IF d = <<>> THEN 0
        ELSE 10 * ValueOf(SubSeq(d, 1, Len(d) - 1)) + DigitVal(d[Len(d)])
      RECURSIVE Normal(_, _)
      Normal(m, e) ==
        IF e > 0 /\ m % 10 = 0 THEN Normal(m \div 10, e - 1)
        ELSE [kind |-> "number", nan |-> FALSE, neg |-> FALSE, m |-> m, e |-> e]
      ip == LeadDigits(str)
      rest == SubSeq(str, Len(ip) + 1, Len(str))
      fp == IF rest # <<>> /\ Head(rest) = "." THEN LeadDigits(Tail(rest)) ELSE <<>>
  IN  IF ip = <<>> /\ fp = <<>>
        THEN [kind |-> "number", nan |-> TRUE, neg |-> FALSE, m |-> 0, e |-> 0]
        ELSE Normal(ValueOf(ip \o fp), Len(fp))

\* pendingAssignments.find(...) is undefined for an id that is not listed
Listed(id) == \E i \in 1..Len(dashboard.pendingAssignments) :
                dashboard.pendingAssignments[i] = id

\* project?.price_per_task ? parseFloat(project.price_per_task) : 5.00
PaymentAmountOf(id) ==
  IF Listed(id) /\ backend.price[id] # <<>>
    THEN parseFloat(backend.price[id])
    ELSE [kind |-> "number", nan |-> FALSE, neg |-> FALSE, m |-> 5, e |-> 0]

BatchIdle ==
  [pc |-> "idle", queue |-> <<>>, selected |-> <<>>, requests |-> <<>>,
   successCount |-> 0, errorCount |-> 0, alert |-> "none"]

InitDashboard ==
  /\ EngineInit
  /\ ValidationIdle
  /\ EndpointIdle
  /\ WebviewIdle
  /\ AuthIdle
  /\ OAuthIdle
  /\ DetectorIdle
  /\ backend \in [submitted : {PendingIds}, price : [PendingIds -> PriceStrings]]
  /\ dashboard = [approving |-> 0, pendingAssignments |-> [i \in PendingIds |-> i],
                  selectedAssignments |-> <<>>, loading |-> FALSE]
  /\ batch = BatchIdle
  /\ sent = {}

toggleAssignmentSelection(id) ==
  /\ Listed(id)
  /\ dashboard' = [dashboard EXCEPT !.selectedAssignments =
                     IF \E i \in 1..Len(@) : @[i] = id
                       THEN SelectSeq(@, LAMBDA x : x # id) ELSE Append(@, id)]
  /\ UNCHANGED <<batch, sent, backend>>
  /\ UNCHANGED outsideDashboard

toggleSelectAll ==
  /\ dashboard.pendingAssignments # <<>>
  /\ dashboard' = [dashboard EXCEPT !.selectedAssignments =
                     IF Len(@) = Len(dashboard.pendingAssignments)
                       THEN <<>> ELSE dashboard.pendingAssignments]
  /\ UNCHANGED <<batch, sent, backend>>
  /\ UNCHANGED outsideDashboard

\* loadPendingAssignments once assignmentsAPI.list('submitted') has returned
\* the submitted assignments in the order of their ids, or has failed
loadPendingAssignments(d, listed) ==
  IF listed
    THEN [d EXCEPT !.pendingAssignments =
                     SelectSeq([i \in PendingIds |-> i],
                               LAMBDA i : i \in backend.submitted),
                   !.selectedAssignments = <<>>]
    ELSE [d EXCEPT !.pendingAssignments = <<>>]

\* handleBatchApprove up to the loop: Approve Selected is rendered for a
\* non-empty selection and enabled while loading is false
BatchStart(confirmed) ==
  /\ ~dashboard.loading
  /\ batch.pc = "idle"
  /\ dashboard.selectedAssignments # <<>>
  /\ IF confirmed
       THEN /\ dashboard' = [dashboard EXCEPT !.loading = TRUE]
            /\ batch' = [BatchIdle EXCEPT !.pc = "send",
                           !.queue = dashboard.selectedAssignments,
                           !.selected = dashboard.selectedAssignments]
       ELSE UNCHANGED <<dashboard, batch>>
  /\ UNCHANGED <<sent, backend>>
  /\ UNCHANGED outsideDashboard

\* the loop body up to await assignmentsAPI.approve(assignmentId,
\* paymentAmount): the amount computed is sent as it is
BatchSend ==
  /\ batch.pc = "send"
  /\ LET id == Head(batch.queue)
         paymentAmount == PaymentAmountOf(id)
     IN /\ sent' = sent \cup {[id |-> id, payment_amount |-> paymentAmount,
                               by |-> "handleBatchApprove"]}
        /\ batch' = [batch EXCEPT !.pc = "await", !.requests = Append(@, id)]
  /\ UNCHANGED <<dashboard, backend>>
  /\ UNCHANGED outsideDashboard

\* mutant: the first failed request ends the loop
AfterError_Stop(q) == <<>>

\* a failed request is counted and the loop goes on
AfterError(q) == q

\* the request returns: the API approves only a submitted assignment
BatchReturn(ok) ==
  /\ batch.pc = "await"
  /\ LET id == Head(batch.queue)
         q == IF ok THEN Tail(batch.queue) ELSE AfterError(Tail(batch.queue))
     IN /\ ok => id \in backend.submitted
        /\ backend' = IF ok THEN [backend EXCEPT !.submitted = @ \ {id}] ELSE backend
        /\ batch' = [batch EXCEPT !.queue = q,
                       !.successCount = IF ok THEN @ + 1 ELSE @,
                       !.errorCount = IF ok THEN @ ELSE @ + 1,
                       !.pc = IF q = <<>> THEN "finish" ELSE "send"]
  /\ UNCHANGED <<dashboard, sent>>
  /\ UNCHANGED outsideDashboard

\* after the loop: setLoading(false) and the reload is requested
BatchFinish ==
  /\ batch.pc = "finish"
  /\ dashboard' = [dashboard EXCEPT !.loading = FALSE]
  /\ batch' = [batch EXCEPT !.pc = "reload"]
  /\ UNCHANGED <<sent, backend>>
  /\ UNCHANGED outsideDashboard

\* the reload returns and the result is shown
BatchReload(listed) ==
  /\ batch.pc = "reload"
  /\ dashboard' = loadPendingAssignments(dashboard, listed)
  /\ batch' = [batch EXCEPT !.pc = "idle",
                 !.alert = IF batch.errorCount = 0 THEN "Successfully approved"
                           ELSE "Approved, Failed"]
  /\ UNCHANGED <<sent, backend>>
  /\ UNCHANGED outsideDashboard

\* the Approve button of one assignment: handleApproveAssignment(id,
\* defaultPrice) up to its first await
SingleApprove(id) ==
  /\ dashboard.approving = 0
  /\ ~dashboard.loading
  /\ Listed(id)
  /\ LET paymentAmount == PaymentAmountOf(id)
     IN IF validatePaymentAmount(paymentAmount) # "null"
          THEN UNCHANGED <<dashboard, sent>>
          ELSE /\ dashboard' = [dashboard EXCEPT !.loading = TRUE, !.approving = id]
               /\ sent' = sent \cup {[id |-> id, payment_amount |-> paymentAmount,
                                      by |-> "handleApproveAssignment"]}
  /\ UNCHANGED <<batch, backend>>
  /\ UNCHANGED outsideDashboard

\* the rest of handleApproveAssignment: the request returns, the list is
\* reloaded on success, and finally loading is cleared
SingleReturn(ok, listed) ==
  /\ dashboard.approving \in PendingIds
  /\ ok => dashboard.approving \in backend.submitted
  /\ backend' = IF ok THEN [backend EXCEPT !.submitted = @ \ {dashboard.approving}] ELSE backend
  /\ dashboard' = [(IF ok THEN loadPendingAssignments(dashboard, listed) ELSE dashboard)
                     EXCEPT !.loading = FALSE, !.approving = 0]
  /\ UNCHANGED <<batch, sent>>
  /\ UNCHANGED outsideDashboard

NextDashboard ==
  \/ \E id \in PendingIds : toggleAssignmentSelection(id)
  \/ toggleSelectAll
  \/ \E confirmed \in BOOLEAN : BatchStart(confirmed)
  \/ BatchSend
  \/ \E ok \in BOOLEAN : BatchReturn(ok)
  \/ BatchFinish
  \/ \E listed \in BOOLEAN : BatchReload(listed)
  \/ \E id \in PendingIds : SingleApprove(id)
  \/ \E ok \in BOOLEAN, listed \in BOOLEAN : SingleReturn(ok, listed)

SpecDashboard == InitDashboard /\ [][NextDashboard]_vars

\* ---------------------------------------------------------- authentication
\* AuthManager over StorageManager (part_004, part_001), sendDataToWebview
\* (part_003) and the dashboard's login and logout (App.tsx).  A token is
\* named after the user it was issued to.  globalState.update shows the new
\* value at once and resolves later, so every awaited storage call is a
\* point where the other calls may run.
\* the accounts that log in: one annotator, one researcher
LoginUsers == {"annA", "resR"}

UserType(u) == IF u \in Annotators THEN "annotator" ELSE "researcher"

\* StorageManager.has
has(key) == storage[key] # "none"

\* AuthManager.isAuthenticated
isAuthenticated == has("authToken")

InitAuth ==
  /\ EngineInit
  /\ ValidationIdle
  /\ EndpointIdle
  /\ WebviewIdle
  /\ DashboardIdle
  /\ OAuthIdle
  /\ DetectorIdle
  /\ AuthIdle

\* login: POST /auth/login/ is sent
LoginPost ==
  /\ login.pc = "idle"
  /\ login' = [pc |-> "posting", response |-> "none", result |-> "none"]
  /\ logout' = IF logout.pc # "idle" THEN [logout EXCEPT !.overlapped = TRUE] ELSE logout
  /\ UNCHANGED <<storage, dataReq, update, web>>
  /\ UNCHANGED outsideAuth

\* mutant: login without the user_type test
MayUseExtension_Anyone(u) == TRUE

\* user.user_type !== 'annotator' throws
MayUseExtension(u) == UserType(u) = "annotator"

\* login: the response arrives, naming user u, or the request fails; for an
\* annotator storage.set('authToken', token) is called and awaited
LoginResponse(u) ==
  /\ login.pc = "posting"
  /\ IF u = "none" \/ ~MayUseExtension(u)
       THEN /\ login' = [pc |-> "idle", response |-> u, result |-> "error"]
            /\ UNCHANGED storage
       ELSE /\ login' = [pc |-> "storing", response |-> u, result |-> "none"]
            /\ storage' = [storage EXCEPT !.authToken = u]
  /\ UNCHANGED <<logout, dataReq, update, web>>
  /\ UNCHANGED outsideAuth

\* login: storage.set('user', user), and the user is returned
LoginStoreUser ==
  /\ login.pc = "storing"
  /\ storage' = [storage EXCEPT !.user = login.response]
  /\ login' = [login EXCEPT !.pc = "idle", !.result = "ok"]
  /\ UNCHANGED <<logout, dataReq, update, web>>
  /\ UNCHANGED outsideAuth

\* logout: POST /auth/logout/ is sent
LogoutPost ==
  /\ logout.pc = "idle"
  /\ logout' = [pc |-> "posting", had |-> storage.authToken,
                overlapped |-> login.pc # "idle", ok |-> FALSE, done |-> FALSE]
  /\ UNCHANGED <<storage, login, dataReq, update, web>>
  /\ UNCHANGED outsideAuth

\* mutant: the token is removed only when the server logout succeeded
TokenAfterLogout_KeptOnError(ok) == IF ok THEN "none" ELSE storage.authToken

\* finally: storage.remove('authToken')
TokenAfterLogout(ok) == "none"

\* logout: the request returned or failed (ignored); the token is removed
LogoutRemoveToken(ok) ==
  /\ logout.pc = "posting"
  /\ storage' = [storage EXCEPT !.authToken = TokenAfterLogout(ok)]
  /\ logout' = [logout EXCEPT !.pc = "removing", !.ok = ok]
  /\ UNCHANGED <<login, dataReq, update, web>>
  /\ UNCHANGED outsideAuth

\* logout: storage.remove('user'), and logout returns
LogoutRemoveUser ==
  /\ logout.pc = "removing"
  /\ storage' = [storage EXCEPT !.user = "none"]
  /\ logout' = [logout EXCEPT !.pc = "idle", !.done = TRUE]
  /\ UNCHANGED <<login, dataReq, update, web>>
  /\ UNCHANGED outsideAuth

\* sendDataToWebview up to its first await: isAuthenticated() and the read
\* inside getUser() run in the same turn
DataStart ==
  /\ dataReq.pc = "idle"
  /\ dataReq' = [pc |-> "fetching", isAuthenticated |-> isAuthenticated,
                 user |-> storage.user]
  /\ UNCHANGED <<storage, login, logout, update, web>>
  /\ UNCHANGED outsideAuth

\* sendDataToWebview: projects and assignments are fetched when
\* isAuthenticated was true, and the update is posted; a failed fetch posts
\* the logged-out update
DataPost(fetched) ==
  /\ dataReq.pc = "fetching"
  /\ ~fetched => dataReq.isAuthenticated
  /\ update' =
       IF ~fetched
         THEN [type |-> "update", isAuthenticated |-> FALSE, user |-> "none",
               lists |-> "empty"]
         ELSE [type |-> "update", isAuthenticated |-> dataReq.isAuthenticated,
               user |-> dataReq.user,
               lists |-> IF dataReq.isAuthenticated THEN "fetched" ELSE "empty"]
  /\ dataReq' = [pc |-> "idle"]
  /\ UNCHANGED <<storage, login, logout, web>>
  /\ UNCHANGED outsideAuth

\* dashboard handleLogin with a successful response for user u
WebLogin(u) ==
  /\ web.pc = "idle"
  /\ web' = [web EXCEPT !.isAuthenticated = TRUE, !.user = u, !.authToken = u]
  /\ UNCHANGED <<storage, login, logout, dataReq, update>>
  /\ UNCHANGED outsideAuth

\* dashboard handleLogout: authAPI.logout() is awaited
WebLogoutPost ==
  /\ web.pc = "idle"
  /\ web' = [web EXCEPT !.pc = "posting", !.had = web.authToken, !.done = FALSE]
  /\ UNCHANGED <<storage, login, logout, dataReq, update>>
  /\ UNCHANGED outsideAuth

\* dashboard handleLogout: the finally block
WebLogoutFinally(ok) ==
  /\ web.pc = "posting"
  /\ web' = [web EXCEPT !.pc = "idle", !.isAuthenticated = FALSE, !.user = "none",
                        !.authToken = "none", !.ok = ok, !.done = TRUE]
  /\ UNCHANGED <<storage, login, logout, dataReq, update>>
  /\ UNCHANGED outsideAuth

NextAuth ==
  \/ LoginPost
  \/ \E u \in LoginUsers \cup {"none"} : LoginResponse(u)
  \/ LoginStoreUser
  \/ LogoutPost
  \/ \E ok \in BOOLEAN : LogoutRemoveToken(ok)
  \/ LogoutRemoveUser
  \/ DataStart
  \/ \E fetched \in BOOLEAN : DataPost(fetched)
  \/ \E u \in Researchers : WebLogin(u)
  \/ WebLogoutPost
  \/ \E ok \in BOOLEAN : WebLogoutFinally(ok)

SpecAuth == InitAuth /\ [][NextAuth]_vars

\* ------------------------------------------------------------ GitHub OAuth
\* GitHubOAuth (part_005) and the GitHubCallback page.  "none" stands for a
\* missing query parameter and for a missing storage item.
OAuthStates == {"s1", "s2"}

OAuthCodes == {"c1", "c2"}

InitOAuth ==
  /\ EngineInit
  /\ ValidationIdle
  /\ EndpointIdle
  /\ WebviewIdle
  /\ DashboardIdle
  /\ AuthIdle
  /\ DetectorIdle
  /\ OAuthIdle

\* GitHubOAuth.login: the given or generated state is stored and the browser
\* leaves for GitHub
GitHubLogin(authState) ==
  /\ sessionState' = authState
  /\ UNCHANGED <<callback, inflight, localAuth>>
  /\ UNCHANGED outsideOAuth

\* mutant: validateState leaves the stored state in place
StoredAfterValidate_Kept(storedState) == storedState

\* sessionStorage.removeItem('github_oauth_state')
StoredAfterValidate(storedState) == "none"

\* validateState: the result and the stored state afterwards
validateState(state) ==
  [valid |-> state = sessionState, stored |-> StoredAfterValidate(sessionState)]

\* what handleCallback does with the query parameters before its await
CallbackOutcome(code, state, errorParam) ==
  IF errorParam THEN "GitHub OAuth error"
  ELSE IF code = "none" \/ state = "none" THEN "Invalid OAuth callback"
  ELSE IF ~validateState(state).valid THEN "Invalid OAuth state"
  ELSE "authenticating"

\* the callback page runs handleCallback up to authenticateWithCode
HandleCallback(code, state, errorParam) ==
  /\ callback.n < MaxCallbacks
  /\ LET outcome == CallbackOutcome(code, state, errorParam)
         validated == outcome \in {"Invalid OAuth state", "authenticating"}
     IN /\ callback' = [n |-> callback.n + 1, code |-> code, state |-> state,
                        outcome |-> outcome, stored |-> sessionState]
        /\ sessionState' = IF validated THEN validateState(state).stored
                           ELSE sessionState
        /\ inflight' = IF outcome = "authenticating"
                         THEN inflight \cup {[code |-> code, state |-> state]}
                         ELSE inflight
  /\ UNCHANGED localAuth
  /\ UNCHANGED outsideOAuth

\* authenticateWithCode returns: the token is stored, or the error is shown
AuthenticateReturn(r, ok) ==
  /\ r \in inflight
  /\ inflight' = inflight \ {r}
  /\ localAuth' = IF ok THEN r.code ELSE localAuth
  /\ UNCHANGED <<sessionState, callback>>
  /\ UNCHANGED outsideOAuth

NextOAuth ==
  \/ \E authState \in OAuthStates : GitHubLogin(authState)
  \/ \E code \in OAuthCodes \cup {"none"}, state \in OAuthStates \cup {"none"},
        errorParam \in BOOLEAN : HandleCallback(code, state, errorParam)
  \/ \E code \in OAuthCodes, state \in OAuthStates, ok \in BOOLEAN :
        AuthenticateReturn([code |-> code, state |-> state], ok)

SpecOAuth == InitOAuth /\ [][NextOAuth]_vars

\* ------------------------------------------------------------ IdleDetector
\* IdleDetector (part_003:5-85).  Time is counted in whole seconds and
\* saturates at MaxIdle; detector.idle is Date.now() - lastActivityTime.
Thresholds == 1..MaxThreshold

IdleCallbackIds == {"cbA", "cbB"}

IntervalIds == 1..MaxIntervals

InitIdle ==
  /\ EngineInit
  /\ ValidationIdle
  /\ EndpointIdle
  /\ WebviewIdle
  /\ DashboardIdle
  /\ AuthIdle
  /\ OAuthIdle
  /\ detector = [idle |-> 0, idleCallbacks |-> [s \in Thresholds |-> "none"],
                 checkInterval |-> 0, listening |-> TRUE]
  /\ timers = {}
  /\ quiet = 0
  /\ invoked = [call |-> "new", callbacks |-> {}, effect |-> FALSE, since |-> {}]

\* a second passes
Advance ==
  /\ detector' = [detector EXCEPT !.idle = IF @ < MaxIdle THEN @ + 1 ELSE @]
  /\ quiet' = IF quiet < MaxIdle THEN quiet + 1 ELSE quiet
  /\ invoked' = [call |-> "none", callbacks |-> {}, effect |-> FALSE,
                 since |-> invoked.since]
  /\ UNCHANGED timers
  /\ UNCHANGED outsideIdle

\* the user edits, selects or changes editor or terminal: the activity
\* listeners, while registered, call resetIdleTimer
Activity ==
  /\ detector' = [detector EXCEPT !.idle = IF detector.listening THEN 0 ELSE @]
  /\ quiet' = 0
  /\ invoked' = [call |-> "activity", callbacks |-> {}, effect |-> detector.listening,
                 since |-> {}]
  /\ UNCHANGED timers
  /\ UNCHANGED outsideIdle

onIdle(seconds, cb) ==
  /\ detector' = [detector EXCEPT !.idleCallbacks[seconds] = cb]
  /\ invoked' = [call |-> "onIdle", callbacks |-> {}, effect |-> TRUE,
                 since |-> invoked.since]
  /\ UNCHANGED <<timers, quiet>>
  /\ UNCHANGED outsideIdle

\* mutant: start without the already-started test
AlreadyStarted_Never == FALSE

\* if (this.checkInterval) return
AlreadyStarted == detector.checkInterval # 0

start ==
  /\ \E id \in IntervalIds : id \notin timers
  /\ IF AlreadyStarted
       THEN UNCHANGED <<detector, timers>>
       ELSE LET id == CHOOSE i \in IntervalIds : i \notin timers
            IN /\ timers' = timers \cup {id}
               /\ detector' = [detector EXCEPT !.checkInterval = id]
  /\ invoked' = [call |-> "start", callbacks |-> {}, effect |-> ~AlreadyStarted,
                 since |-> invoked.since]
  /\ UNCHANGED quiet
  /\ UNCHANGED outsideIdle

stop ==
  /\ detector' = [detector EXCEPT !.checkInterval = 0]
  /\ timers' = timers \ {detector.checkInterval}
  /\ invoked' = [call |-> "stop", callbacks |-> {}, effect |-> detector.checkInterval # 0,
                 since |-> invoked.since]
  /\ UNCHANGED quiet
  /\ UNCHANGED outsideIdle

dispose ==
  /\ detector' = [detector EXCEPT !.checkInterval = 0, !.listening = FALSE]
  /\ timers' = timers \ {detector.checkInterval}
  /\ invoked' = [call |-> "dispose", callbacks |-> {}, effect |-> TRUE,
                 since |-> invoked.since]
  /\ UNCHANGED quiet
  /\ UNCHANGED outsideIdle

\* the callbacks one run of the interval function invokes: idleTimeSeconds is
\* computed once, before the loop
Due(idleTimeSeconds) ==
  {detector.idleCallbacks[s] : s \in {t \in Thresholds :
      detector.idleCallbacks[t] # "none" /\ idleTimeSeconds >= t}}

\* an interval fires: every due callback is invoked and the timer is reset
\* after each
Tick(id) ==
  /\ id \in timers
  /\ detector' = [detector EXCEPT !.idle = IF Due(detector.idle) # {} THEN 0 ELSE @]
  /\ invoked' = [call |-> "tick", callbacks |-> Due(detector.idle), effect |-> TRUE,
                 since |-> invoked.since \cup Due(detector.idle)]
  /\ UNCHANGED <<timers, quiet>>
  /\ UNCHANGED outsideIdle

NextIdle ==
  \/ Advance
  \/ Activity
  \/ \E seconds \in Thresholds, cb \in IdleCallbackIds : onIdle(seconds, cb)
  \/ start
  \/ stop
  \/ dispose
  \/ \E id \in IntervalIds : Tick(id)

SpecIdle == InitIdle /\ [][NextIdle]_vars

\* time passes, and a running interval fires again and again
SpecIdleFair ==
  /\ SpecIdle
  /\ WF_vars(Advance)
  /\ \A id \in IntervalIds : WF_vars(Tick(id))

\* ---------------------------------------------------------------- claims
\* C1: in every reachable state, whatever the interleaving of claim calls,
\* each task is referenced by at most one assignment whose status is
\* assigned, accepted, in_progress or submitted.
C1_OneActivePerTask ==
  \A t \in Tasks :
    Cardinality({a \in AsgIds :
                   /\ asg[a].task = t
                   /\ asg[a].status \in {"assigned", "accepted", "in_progress", "submitted"}})
      <= 1

\* a task holds its one active assignment while another annotator's claim
\* call for the same task is still in flight
C1_Witness ==
  \E a \in AsgIds, c \in Annotators :
    /\ asg[a].status \in NonTerminal
    /\ claimReq[c] = asg[a].task
    /\ c # asg[a].annotator

\* C2: of the claim calls racing for one available task, the call handled
\* while the task is available succeeds, receives the one new Assignment
\* (state assigned) and leaves the task claimed; every call handled after it
\* fails with AlreadyClaimed, creates no Assignment and leaves the task
\* claimed.
C2_ClaimRace ==
  [][ last'.op = "claim" =>
        IF taskStatus[claimReq[last'.caller]] = "available"
          THEN /\ last'.outcome = "ok"
               /\ Len(asg') = Len(asg) + 1
               /\ SubSeq(asg', 1, Len(asg)) = asg
               /\ asg'[Len(asg')].task = claimReq[last'.caller]
               /\ asg'[Len(asg')].annotator = last'.caller
               /\ asg'[Len(asg')].status = "assigned"
               /\ taskStatus'[claimReq[last'.caller]] = "claimed"
          ELSE /\ last'.outcome = "AlreadyClaimed"
               /\ asg' = asg
               /\ taskStatus' = taskStatus
               /\ taskStatus'[claimReq[last'.caller]] = "claimed" ]_vars

\* the loser of a race: its call was in flight when the winner's was handled
\* (the task has had no other assignment), and it got AlreadyClaimed
C2_Witness ==
  /\ last.op = "claim"
  /\ last.outcome = "AlreadyClaimed"
  /\ Len(asg) = 1
  /\ asg[1].annotator # last.caller
  /\ asg[1].status = "assigned"
  /\ taskStatus[asg[1].task] = "claimed"

CompletedFor(a) == {k \in TxIds : txs[k].assignment = a /\ txs[k].status = "completed"}

\* C3: an assignment is approved only if a SettlementTransaction for it has
\* reached completed, and when the settlement of an approve call fails (or
\* times out) the assignment is still submitted.
C3_ApprovedOnlyIfSettled ==
  /\ [](\A a \in AsgIds : asg[a].status = "approved" => CompletedFor(a) # {})
  /\ [][ (last'.op = "approve" /\ last'.outcome \in {"SettlementFailure", "Timeout"})
           => /\ asg[last'.id].status = "submitted"
              /\ asg'[last'.id].status = "submitted" ]_vars

\* an approve call whose settlement failed left the assignment submitted and
\* the transaction failed
C3_Witness ==
  /\ last.op = "approve"
  /\ last.outcome = "SettlementFailure"
  /\ asg[last.id].status = "submitted"
  /\ \E k \in TxIds : txs[k].assignment = last.id /\ txs[k].status = "failed"

PaidFor(a) == {k \in TxIds : txs[k].assignment = a /\ k \in paid}

\* C4: across any sequence of approve and retry operations on one
\* assignment, at most one transfer is executed for it and at most one of its
\* SettlementTransactions is ever completed.
C4_AtMostOnePayment ==
  \A a \in AsgIds :
    /\ Cardinality(CompletedFor(a)) <= 1
    /\ Cardinality(PaidFor(a)) <= 1

\* C5: a reject call creates no SettlementTransaction and invokes no
\* transfer, and while an assignment is rejected no payment is issued for it:
\* no transfer is executed under one of its transactions and none of its
\* transactions becomes completed.
C5_NoPaymentForRejected ==
  /\ [][ last'.op = "reject" => (txs' = txs /\ paid' = paid) ]_vars
  /\ [][ \A a \in AsgIds :
           asg[a].status = "rejected"
             => /\ {k \in paid' : txs[k].assignment = a} \subseteq paid
                /\ \A k \in TxIds :
                     (txs[k].assignment = a /\ txs'[k].status = "completed")
                       => txs[k].status = "completed" ]_vars

C7_Allowed(o) ==
  CASE o = "start"   -> {"assigned", "accepted"}
    [] o = "submit"  -> {"assigned", "accepted", "in_progress"}
    [] o = "cancel"  -> {"assigned", "accepted", "in_progress"}
    [] o = "approve" -> {"submitted"}
    [] o = "reject"  -> {"submitted"}

C7_ByAuthorised(o, c, a) ==
  CASE o \in {"start", "submit"}   -> c = asg[a].annotator
    [] o \in {"approve", "reject"} -> c = ProjectOwner(asg[a].task)
    [] o = "cancel"                -> TRUE

C7_Call(l) ==
  /\ l.op \in {"start", "submit", "cancel", "approve", "reject"}
  /\ l.caller \in Callers

C7_Refused(l) ==
  /\ l.outcome = "InvalidState"
  /\ UNCHANGED <<asg, taskStatus, txs, paid>>

C9_Blank(r) == \A i \in 1..Len(r) : r[i] = " "

C9_NoBlankResult ==
  \A a \in AsgIds :
    asg[a].status \in {"submitted", "approved", "rejected"} => ~C9_Blank(asg[a].result)

C10_TerminalStays ==
  [][ \A a \in AsgIds :
        asg[a].status \in {"approved", "rejected", "cancelled"}
          => (a <= Len(asg') /\ asg'[a].status = asg[a].status) ]_vars

\* the owner's approve on a rejected assignment was refused
C10_Witness ==
  /\ last.op = "approve"
  /\ last.caller = "resR"
  /\ last.outcome = "InvalidState"
  /\ asg[last.id].status = "rejected"

C12_FailureNoAutoRetry ==
  /\ [][ (last'.op = "approve" /\ last'.outcome = "SettlementFailure")
           => \E k \in TxIds :
                /\ txs[k].call = "settle"
                /\ txs[k].assignment = last'.id
                /\ txs'[k].status = "failed"
                /\ txs'[k].error
                /\ txs'[k].retry_count = txs[k].retry_count + 1
                /\ txs'[k].call = "none" ]_vars
  /\ [][ \A k \in TxIds :
           (txs[k].status = "failed" /\ txs[k].call = "none")
             => /\ (k \in paid') = (k \in paid)
                /\ txs'[k].call # "none"
                     => (last'.op = "retry" /\ last'.id = k /\ last'.outcome = "processing") ]_vars
  /\ [](\A k \in TxIds : txs[k].status = "failed" => txs[k].call = "none")

\* the transfer of a settle failed: the record is failed with an error and a
\* retry count of one, nothing was paid and nothing is in flight
C12_Witness ==
  /\ last.op = "approve"
  /\ last.outcome = "SettlementFailure"
  /\ \E k \in TxIds :
       /\ txs[k].assignment = last.id
       /\ txs[k].status = "failed"
       /\ txs[k].error
       /\ txs[k].retry_count = 1
       /\ txs[k].call = "none"
       /\ k \notin paid

\* C13: a retry call is accepted only for a transaction whose status is
\* failed; for a transaction in any other status it is rejected with
\* InvalidState, changes no record and invokes no transfer.
C13_RetryOnlyFailed ==
  [][ \A k \in TxIds :
        Retry(k) =>
          IF txs[k].status = "failed"
            THEN /\ last'.outcome = "processing"
                 /\ txs'[k].call = "retry"
            ELSE /\ txs[k].status \in {"pending", "processing", "completed", "refunded"}
                 /\ last'.outcome = "InvalidState"
                 /\ txs' = txs
                 /\ paid' = paid
                 /\ asg' = asg ]_vars

\* a retry call on a completed transaction was refused
C13_Witness ==
  /\ last.op = "retry"
  /\ last.outcome = "InvalidState"
  /\ txs[last.id].status = "completed"

\* C14: when the transfer call of settle times out the transaction stays
\* pending (a timeout in a retry leaves it as it was, processing); a
\* transaction left pending or processing with no call in flight changes
\* status only in a reconciliation step, which sets it completed exactly when
\* the transfer service has executed the transfer.
C14_TimeoutStaysPending ==
  /\ [][ (last'.op = "approve" /\ last'.outcome = "Timeout")
           => \E k \in TxIds :
                /\ txs[k].call = "settle"
                /\ txs[k].assignment = last'.id
                /\ txs'[k].status = "pending"
                /\ txs'[k].call = "none" ]_vars
  /\ [][ last'.outcome = "Timeout"
           => \A k \in TxIds : txs'[k].status = txs[k].status ]_vars
  /\ [][ \A k \in TxIds :
           (txs[k].status \in {"pending", "processing"} /\ txs[k].call = "none"
              /\ txs'[k].status # txs[k].status)
             => /\ last'.op = "reconcile"
                /\ last'.id = k
                /\ txs'[k].status = IF k \in paid THEN "completed" ELSE "failed" ]_vars

\* a settle transfer timed out after the service had paid: the record is
\* still pending
C14_Witness ==
  /\ last.op = "approve"
  /\ last.outcome = "Timeout"
  /\ \E k \in TxIds :
       /\ txs[k].assignment = last.id
       /\ txs[k].status = "pending"
       /\ txs[k].call = "none"
       /\ k \in paid

\* C15: a cancel call takes effect only on an assigned, accepted or
\* in_progress assignment; on a submitted assignment, also while its
\* settlement is in flight, it is refused with InvalidState and changes no
\* assignment, no task, no transaction and no transfer in flight.
C15_CancelOnlyBeforeSubmission ==
  /\ [][ last'.op = "cancel"
           => IF asg[last'.id].status \in {"assigned", "accepted", "in_progress"}
                THEN asg'[last'.id].status = "cancelled"
                ELSE /\ last'.outcome = "InvalidState"
                     /\ UNCHANGED <<asg, taskStatus, txs, paid>> ]_vars
  /\ [][ \A a \in AsgIds :
           (asg[a].status # "cancelled" /\ asg'[a].status = "cancelled")
             => asg[a].status \in {"assigned", "accepted", "in_progress"} ]_vars

\* a cancel call on a submitted assignment whose settlement is in flight was
\* refused; the task is still claimed and the transfer still in flight
C15_Witness ==
  /\ last.op = "cancel"
  /\ last.outcome = "InvalidState"
  /\ asg[last.id].status = "submitted"
  /\ taskStatus[asg[last.id].task] = "claimed"
  /\ \E k \in TxIds : txs[k].assignment = last.id /\ txs[k].call = "settle"

\* C18: a SettlementTransaction has its transaction hash set exactly when its
\* status is completed.
C18_HashIffCompleted ==
  \A k \in TxIds : (txs[k].hash # 0) = (txs[k].status = "completed")

\* one transaction failed and carries no hash, another completed and carries
\* one
C18_Witness ==
  \E j, k \in TxIds :
    /\ txs[j].status = "failed"
    /\ txs[j].hash = 0
    /\ txs[k].status = "completed"
    /\ txs[k].hash # 0

\* C16: an approve whose audit entry cannot be written fails, and no approve
\* has completed (assignment approved, or money transferred) without an audit
\* entry of that request having been recorded.
C16_NoUnauditedApproval ==
  /\ [][ handler'.outcome = "approved" /\ handler.outcome # "approved"
           => Len(auditLog') = Len(auditLog) + 1 ]_vars
  /\ [](handler.pc = "idle"
          => /\ \A a \in DOMAIN rows :
                  rows[a].status = "approved"
                    => \E i \in 1..Len(auditLog) : auditLog[i].assignment = a
             /\ \A h \in chain :
                  \E i \in 1..Len(auditLog) : auditLog[i].request = h)

\* C17: in the workflow claim, start, submit of a non-empty result, approve
\* with 5.00 and a successful transfer, every step takes effect (start on the
\* claimed assignment gives in_progress, submit gives submitted with the
\* result stored, approve writes one pending transaction of 5.00, the
\* successful transfer gives approved), and an approved assignment has
\* exactly one SettlementTransaction, completed, of amount 5.00.
C17_HappyPath ==
  /\ [][ (last'.op = "start" /\ asg[last'.id].status = "assigned")
           => asg'[last'.id].status = "in_progress" ]_vars
  /\ [][ (last'.op = "submit" /\ asg[last'.id].status = "in_progress")
           => /\ asg'[last'.id].status = "submitted"
              /\ ~C9_Blank(asg'[last'.id].result) ]_vars
  /\ [][ (last'.op = "approve" /\ last'.caller # "none"
            /\ asg[last'.id].status = "submitted"
            /\ \A k \in TxIds : txs[k].assignment # last'.id)
           => /\ Len(txs') = Len(txs) + 1
              /\ txs'[Len(txs')].assignment = last'.id
              /\ txs'[Len(txs')].amount = FiveDollars
              /\ txs'[Len(txs')].status = "pending" ]_vars
  /\ [][ (last'.op = "approve" /\ last'.caller = "none")
           => /\ last'.outcome = "ok"
              /\ asg'[last'.id].status = "approved" ]_vars
  /\ [](\A a \in AsgIds :
          asg[a].status = "approved"
            => \E k \in TxIds :
                 /\ {j \in TxIds : txs[j].assignment = a} = {k}
                 /\ txs[k].status = "completed"
                 /\ txs[k].amount = FiveDollars
                 /\ k \in paid)

\* the workflow has run to its end: started, submitted, approved and paid once
C17_Witness ==
  /\ Len(asg) = 1
  /\ asg[1].status = "approved"
  /\ ~C9_Blank(asg[1].result)
  /\ last.op = "approve"
  /\ last.outcome = "ok"
  /\ Len(txs) = 1
  /\ txs[1].status = "completed"
  /\ txs[1].amount = FiveDollars
  /\ paid = {1}

\* the amounts the claim calls valid: positive, at least 0.01, at most
\* 10,000, with at most 2 decimal places
C19_Valid(x) ==
  /\ ~x.nan
  /\ ~x.neg
  /\ x.m > 0
  /\ x.e <= 2
  /\ ~Exceeds(x.m, x.e, 10000)

\* C19: payment amount validation, in the dashboard and in the serializer,
\* accepts an amount exactly when it is positive (at least 0.01), at most
\* 10,000 and has at most 2 decimal places, and the dashboard posts an approve
\* request only for such an amount.
C19_AmountAcceptedIffValid ==
  /\ verdict.by \in {"handleApproveAssignment", "ApproveAssignmentSerializer"}
       => ((verdict.error = "null") = C19_Valid(input))
  /\ request.posted => C19_Valid(request.payment_amount)

\* EIP-55: a letter of the address is upper case exactly where the digest of
\* the lower-case address has a nibble of 8 or more
C20_ChecksumOK(x) ==
  \A i \in 1..HexLen :
    x.address[i + 2] \in LowerHex \cup UpperHex
      => ((x.address[i + 2] \in UpperHex) = x.hashHigh[((i - 1) % 2) + 1])

\* C20: an address of 0x and 40 hexadecimal characters in mixed case whose
\* EIP-55 checksum is wrong is rejected by the extension's validator and by
\* the web validator.
C20_BadChecksumRejected ==
  (/\ verdict.by \in {"extension", "web"}
   /\ MatchesHex40(input.address)
   /\ HasUpperCase(input.address)
   /\ HasLowerCase(input.address)
   /\ ~C20_ChecksumOK(input))
    => verdict.error # "null"

\* C21 as stated: a claim message is posted only when the extension host is
\* handling no earlier claim message.
C21_NoClaimUntilHandled ==
  click.action \in ClaimButtons /\ click.posts > 0 => click.handling = 0

\* C21: a click on a claim button posts no claim message while isClaimingTask
\* is set and exactly one otherwise, however many listeners serve the click;
\* the flag is set exactly while the 3-second timer of the last posted claim
\* is pending.
C21_NoClaimWhileGuarded ==
  /\ click.action \in ClaimButtons =>
       click.posts = (IF click.guarded THEN 0 ELSE 1)
  /\ webview.isClaimingTask <=> webview.timers = 1
  /\ webview.timers <= 1

\* a click on the other claim button was swallowed while the first claim was
\* still with the host, with two listeners attached
C21_Witness ==
  /\ click.action \in ClaimButtons
  /\ click.guarded
  /\ click.posts = 0
  /\ click.listeners >= 2
  /\ host.claims = 1

\* C22: whatever the number of update messages rendered before, one click on
\* start, cancel or submit (with an annotation entered) posts exactly one
\* message to the extension host.
C22_OneMessagePerClick ==
  click.action \in PostButtons /\ ~click.blank => click.posts = 1

\* C23: every approve request the dashboard has sent, from the single
\* Approve button or from Approve Selected, carries an amount that
\* validatePaymentAmount accepts.
C23_SentAmountsAccepted ==
  \A r \in sent : validatePaymentAmount(r.payment_amount) = "null"

BatchOver == batch.pc \in {"finish", "reload"} \/ (batch.pc = "idle" /\ batch.alert # "none")

\* C24: a confirmed batch approval sends one request per selected assignment,
\* in the order of the selection and one at a time; when the loop is over,
\* failed requests or not, the requests sent are exactly the selection,
\* successCount + errorCount is the number selected, and loading is set to
\* false.
C24_BatchCompletes ==
  /\ [](BatchOver => /\ batch.requests = batch.selected
                     /\ batch.successCount + batch.errorCount = Len(batch.selected))
  /\ [](batch.pc # "idle" =>
          Len(batch.requests) - (batch.successCount + batch.errorCount)
            = (IF batch.pc = "await" THEN 1 ELSE 0))
  /\ [][batch.pc = "finish" /\ batch'.pc = "reload" => ~dashboard'.loading]_vars

\* a batch of two is over: one request failed, one succeeded
C24_Witness ==
  /\ batch.pc = "idle"
  /\ Len(batch.selected) = 2
  /\ batch.successCount = 1
  /\ batch.errorCount = 1
  /\ batch.alert = "Approved, Failed"
  /\ ~dashboard.loading

\* C25: whatever the interleaving of login, logout and data requests, an
\* update posted with isAuthenticated = true carries a user, and an update
\* posted with isAuthenticated = false carries no projects or assignments.
C25_UpdatesConsistent ==
  update.type = "update" =>
    /\ update.isAuthenticated => update.user # "none"
    /\ ~update.isAuthenticated => update.lists = "empty"

\* C26: a login whose response names a user that is not an annotator ends
\* with an error and leaves the stored authToken and user as they were; a
\* token is stored only by a login whose response names an annotator, so no
\* stored token belongs to another kind of user.
C26_NonAnnotatorLoginRefused ==
  /\ [][login.pc = "posting" /\ login'.response \in LoginUsers
          /\ UserType(login'.response) # "annotator"
        => login'.result = "error" /\ storage' = storage]_vars
  /\ [][storage'.authToken # storage.authToken /\ storage'.authToken # "none"
        => UserType(login'.response) = "annotator"]_vars
  /\ [](storage.authToken # "none" => UserType(storage.authToken) = "annotator")

\* a researcher's login has failed while the annotator's token and user
\* stayed stored
C26_Witness ==
  /\ login.pc = "idle"
  /\ login.response = "resR"
  /\ login.result = "error"
  /\ storage = [authToken |-> "annA", user |-> "annA"]

C28_StateChecked ==
  /\ [][callback'.n > callback.n /\ callback'.outcome = "authenticating"
        => /\ callback'.state = sessionState
           /\ sessionState' = "none"]_vars
  /\ [][inflight' # inflight /\ inflight' \ inflight # {}
        => callback'.n > callback.n /\ callback'.state = sessionState]_vars
  /\ [][localAuth' # localAuth
        => \E r \in inflight : localAuth' = r.code /\ r \notin inflight']_vars
  /\ [](sessionState = "none" \/ sessionState \in OAuthStates)

\* the same state came back a second time and was refused while the call
\* made for its first callback is still awaiting the backend
C28_Witness ==
  /\ callback.n >= 2
  /\ callback.outcome = "Invalid OAuth state"
  /\ callback.stored = "none"
  /\ \E r \in inflight : r.state = callback.state

Started == detector.checkInterval # 0

\* the liveness half of C29
C29_EventuallyInvoked ==
  \A s \in Thresholds, cb \in IdleCallbackIds :
    (Started /\ detector.idleCallbacks[s] = cb /\ quiet >= s)
      ~> (cb \in invoked.since \/ ~Started \/ quiet < s
            \/ detector.idleCallbacks[s] # cb)

\* the safety half of C29
C29_NeverEarly ==
  [](invoked.call = "tick" =>
       \A cb \in invoked.callbacks :
         \E s \in Thresholds : detector.idleCallbacks[s] = cb /\ quiet >= s)

\* C29: while the detector is started, a callback registered with onIdle(s,
\* cb) is eventually invoked once the user has been inactive for s seconds,
\* and no callback is invoked when fewer than s seconds have passed since the
\* user's last activity.
C29_IdleCallbacks == C29_EventuallyInvoked /\ C29_NeverEarly

\* C30: whatever the sequence of start, stop and dispose, at most one check
\* interval is running; none is running while the detector is stopped, and a
\* callback is invoked only by the interval of a started detector, so none is
\* invoked after stop or dispose until start is called again.
C30_OneIntervalNoneWhenStopped ==
  /\ [](Cardinality(timers) <= 1)
  /\ [](~Started => timers = {})
  /\ [](Started => timers = {detector.checkInterval})
  /\ [][invoked'.callbacks # {} => Started /\ timers # {}]_vars

\* the detector was stopped with a callback due, and a second has passed
\* without the callback being invoked
C30_Witness ==
  /\ ~Started
  /\ timers = {}
  /\ invoked.call = "none"
  /\ \E s \in Thresholds : detector.idleCallbacks[s] # "none" /\ detector.idle >= s + 1

====
